---- MODULE Spec2Model ----
(***************************************************************************)
(* import_addon.py: import addon manifests into localStorage.json ->       *)
(* profile -> addons.  One run of the script is modelled: argument         *)
(* parsing, load_storage, the per-source import loop, save_storage         *)
(* (temporary file, then os.replace) and the interpreter's exit.           *)
(*                                                                         *)
(* JSON values are tagged records [t, v]; text is a sequence of one        *)
(* character strings so that str.strip() and str.split() are computed.     *)
(***************************************************************************)
EXTENDS Integers, Sequences, FiniteSets, TLC

(* ---------------------------------------------------------------- bounds *)
\* longest list of sources in one command-line argument
MaxUrls == 3
\* most command-line arguments after the script name
MaxArgs == 2

(* ------------------------------------------------------------ JSON values *)
WS == {" "}

Str(s) == [t |-> "str", v |-> s]
Null == [t |-> "null", v |-> <<>>]
Num == [t |-> "num", v |-> <<>>]
List == [t |-> "list", v |-> <<>>]
Dict == [t |-> "dict", v |-> <<>>]
\* a key the object does not hold
NoKey == [t |-> "absent", v |-> <<>>]

\* str.strip(): leading and trailing whitespace removed
RECURSIVE LStrip(_)
LStrip(s) == IF s # <<>> /\ Head(s) \in WS THEN LStrip(Tail(s)) ELSE s

RECURSIVE RStrip(_)
RStrip(s) ==
  IF s # <<>> /\ s[Len(s)] \in WS THEN RStrip(SubSeq(s, 1, Len(s) - 1)) ELSE s

strip(s) == RStrip(LStrip(s))

\* dict.get(key): None (JSON null) when the key is absent
Get(val) == IF val.t = "absent" THEN Null ELSE val

(* -------------------------------------------------------------- manifests *)
REQUIRED_FIELDS ==
  <<"id", "version", "name", "description", "logo", "resources", "types">>

str_fields == <<"id", "version", "name", "description", "logo">>

coll_fields == <<"resources", "types">>

FieldNames == {REQUIRED_FIELDS[i] : i \in 1..Len(REQUIRED_FIELDS)}

\* A decoded document: its JSON kind and, per required field name k, what
\* `k in data` / data[k] give (NoKey when `k in data` is false).
Doc(kind, f) == [kind |-> kind, f |-> f]

NoFields == [k \in FieldNames |-> NoKey]

GoodFields(id, ver) ==
  [k \in FieldNames |->
     IF k = "id" THEN Str(id)
     ELSE IF k = "version" THEN Str(ver)
     ELSE IF k = "resources" THEN List
     ELSE IF k = "types" THEN Dict
     ELSE Str(<<"x">>)]

NoDoc == Doc("none", NoFields)

\* validate_addon's result: ok, or the failure (missing fields, offending
\* field) or an exception raised while checking
VResult(ok, raised, missing, field) ==
  [ok |-> ok, raised |-> raised, missing |-> missing, field |-> field]

validate_addon(data) ==
  IF data.kind \in {"num", "bool", "null"}
  THEN \* `k not in data` raises TypeError
       VResult(FALSE, TRUE, <<>>, "")
  ELSE
    LET missing == SelectSeq(REQUIRED_FIELDS, LAMBDA k : data.f[k].t = "absent")
        BadStr(k) == data.f[k].t # "str" \/ strip(data.f[k].v) = <<>>
        BadColl(k) == data.f[k].t \notin {"list", "dict"}
        badStrs == SelectSeq(str_fields, BadStr)
        badColls == SelectSeq(coll_fields, BadColl)
    IN IF missing # <<>> THEN VResult(FALSE, FALSE, missing, "")
       ELSE IF data.kind # "obj"
       THEN \* data[k] on a list or a str raises TypeError
            VResult(FALSE, TRUE, <<>>, "")
       ELSE IF badStrs # <<>> THEN VResult(FALSE, FALSE, <<>>, Head(badStrs))
       ELSE IF badColls # <<>> THEN VResult(FALSE, FALSE, <<>>, Head(badColls))
       ELSE VResult(TRUE, FALSE, <<>>, "")

(* ---------------------------------------------------------------- entries *)
\* An element of profile.addons: whether it is a JSON object, its top-level
\* "id" (NoKey when it has none), its flags, manifest and transportUrl.
Entry(isDict, id, official, protected, manifest, url) ==
  [isDict |-> isDict, id |-> id,
   flags |-> [official |-> official, protected |-> protected],
   manifest |-> manifest, transportUrl |-> url]

\* the wrapper merge_addon builds
AddonEntry(addon, src) == Entry(TRUE, NoKey, FALSE, FALSE, addon, src)

NoEntry == Entry(FALSE, NoKey, FALSE, FALSE, NoDoc, "")

\* the test of merge_addon's scan
Matches(existing, addon) ==
  existing.isDict /\ Get(existing.id) = addon.f["id"]

\* index of the first entry the scan matches, 0 if none
RECURSIVE FindIndex(_, _, _)
FindIndex(addons, addon, i) ==
  IF i > Len(addons) THEN 0
  ELSE IF Matches(addons[i], addon) THEN i
  ELSE FindIndex(addons, addon, i + 1)

\* merge_addon with the update done as remove-then-append
merge_addon_moves(storage, addon, src) ==
  LET data == AddonEntry(addon, src)
      addons == storage.addons
      i == FindIndex(addons, addon, 1)
      rest == [k \in 1..(Len(addons) - 1) |-> IF k < i THEN addons[k] ELSE addons[k + 1]]
  IN IF i # 0
     THEN [storage |-> [storage EXCEPT !.addons = Append(rest, data)],
           action |-> "updated"]
     ELSE [storage |-> [storage EXCEPT !.addons = Append(addons, data)],
           action |-> "inserted"]

\* merge_addon: the new storage and the returned action
merge_addon(storage, addon, src) ==
  LET data == AddonEntry(addon, src)
      addons == storage.addons
      i == FindIndex(addons, addon, 1)
  IN IF i # 0
     THEN [storage |-> [storage EXCEPT !.addons = [addons EXCEPT ![i] = data]],
           action |-> "updated"]
     ELSE [storage |-> [storage EXCEPT !.addons = Append(addons, data)],
           action |-> "inserted"]

(* ------------------------------------------------------------------ files *)
\* A file's text is a sequence of chunks, the units json.dump hands to
\* f.write.  A JSON object document is a header chunk (everything of the
\* document but the elements of profile.addons), one chunk per element, a
\* closing chunk and the trailing newline; a document of another JSON kind
\* is one chunk.  p is what `"profile" in data` gives for the document.
Chunk(c, p, profile, addons, other, e) ==
  [c |-> c, p |-> p, profile |-> profile, addons |-> addons, other |-> other,
   e |-> e]

HdrChunk(profile, addons, other) ==
  Chunk("hdr", profile # "absent", profile, addons, other, NoEntry)

ItemChunk(e) == Chunk("item", FALSE, "", "", "", e)

TailChunk == Chunk("tail", FALSE, "", "", "", NoEntry)

NlChunk == Chunk("nl", FALSE, "", "", "", NoEntry)

\* a whole document that is no JSON object: null, num, bool, str, arr
ScalarChunk(kind, p) == Chunk(kind, p, "", "", "", NoEntry)

\* bytes that are no JSON text
JunkChunk == Chunk("junk", FALSE, "", "", "", NoEntry)

\* bytes that are not UTF-8
BadUtf8Chunk == Chunk("badutf8", FALSE, "", "", "", NoEntry)

ScalarKinds == {"null", "num", "bool", "str", "arr"}

File(exists, text) == [exists |-> exists, text |-> text]

NoFile == File(FALSE, <<>>)

\* the in-memory document load_storage returns: the profile's other fields
\* and profile.addons; some = FALSE is None
Storage(some, other, addons) == [some |-> some, other |-> other, addons |-> addons]

None == Storage(FALSE, "", <<>>)

\* json.dump(data, f, indent=2, sort_keys=True) then f.write("\n")
Serialize(data) ==
  <<HdrChunk("dict", "list", data.other)>>
    \o [i \in 1..Len(data.addons) |-> ItemChunk(data.addons[i])]
    \o <<TailChunk, NlChunk>>

\* text without its trailing newline chunks (JSON ignores them)
RECURSIVE DropNl(_)
DropNl(text) ==
  IF text # <<>> /\ text[Len(text)].c = "nl"
  THEN DropNl(SubSeq(text, 1, Len(text) - 1))
  ELSE text

\* json.load(f) with encoding utf-8: the decoded document, or the error
Parsed(err, kind, hdr, items) == [err |-> err, kind |-> kind, hdr |-> hdr, items |-> items]

json_load(text) ==
  LET body == DropNl(text)
      n == Len(body)
      bad == Parsed("JSONDecodeError", "", JunkChunk, <<>>)
  IN IF \E i \in 1..Len(text) : text[i].c = "badutf8"
     THEN Parsed("UnicodeDecodeError", "", JunkChunk, <<>>)
     ELSE IF n = 0 THEN bad
     ELSE IF n = 1 /\ body[1].c \in ScalarKinds
     THEN Parsed("", body[1].c, body[1], <<>>)
     ELSE IF /\ n >= 2
             /\ body[1].c = "hdr"
             /\ body[n].c = "tail"
             /\ \A i \in 2..(n - 1) : body[i].c = "item"
     THEN Parsed("", "obj", body[1], [i \in 1..(n - 2) |-> body[i + 1].e])
     ELSE bad

\* load_storage's outcome: the exception it raises ("" if none), the
\* warning it prints ("" if none) and the document it returns
LoadResult(raised, warning, data) ==
  [raised |-> raised, warning |-> warning, data |-> data]

load_storage(file) ==
  IF ~file.exists THEN LoadResult("", "", None)
  ELSE
    LET j == json_load(file.text)
    IN IF j.err = "JSONDecodeError"
       THEN LoadResult("", "invalid json", None)
       ELSE IF j.err # "" THEN LoadResult(j.err, "", None)
       ELSE IF j.kind \in {"null", "num", "bool"}
       THEN \* `"profile" not in data`: argument is not iterable
            LoadResult("TypeError", "", None)
       ELSE IF ~j.hdr.p
       THEN LoadResult("", "missing profile", None)
       ELSE IF j.kind # "obj"
       THEN \* data["profile"] on a str or a list
            LoadResult("TypeError", "", None)
       ELSE IF j.hdr.profile # "dict"
       THEN LoadResult("", "missing profile", None)
       ELSE IF j.hdr.addons # "list"
       THEN LoadResult("", "missing addons", None)
       ELSE LoadResult("", "", Storage(TRUE, j.hdr.other, j.items))

storage_path == "localStorage.json"

\* save_storage writing in place
tmp_path_same(path) == path

\* save_storage's temporary sibling: path + ".tmp"
tmp_path(path) == path \o ".tmp"

Paths == {storage_path, tmp_path(storage_path)}

(* ---------------------------------------------------------------- sources *)
\* What a source yields: whether the fetch succeeds, whether the bytes are
\* UTF-8, whether the text is JSON, and the document the text encodes.
Payload(fetch, utf8, json, doc) ==
  [fetch |-> fetch, utf8 |-> utf8, json |-> json, doc |-> doc]

ManifestA == Doc("obj", GoodFields(<<"a">>, <<"1">>))

ManifestB == Doc("obj", GoodFields(<<"b">>, <<"1">>))

Payloads ==
  { Payload(TRUE, TRUE, TRUE, ManifestA),
    Payload(TRUE, TRUE, TRUE, ManifestB),
    \* network or filesystem error, timeout
    Payload(FALSE, TRUE, TRUE, NoDoc),
    \* bytes that do not decode
    Payload(TRUE, FALSE, TRUE, NoDoc),
    \* malformed JSON
    Payload(TRUE, TRUE, FALSE, NoDoc),
    \* two required fields missing
    Payload(TRUE, TRUE, TRUE,
            Doc("obj", [GoodFields(<<"a">>, <<"1">>) EXCEPT !["id"] = NoKey,
                                                             !["logo"] = NoKey])),
    \* id is whitespace only
    Payload(TRUE, TRUE, TRUE,
            Doc("obj", [GoodFields(<<" ">>, <<"1">>) EXCEPT !["name"] = Num])),
    \* version is not a string
    Payload(TRUE, TRUE, TRUE,
            Doc("obj", [GoodFields(<<"a">>, <<"1">>) EXCEPT !["version"] = Num])),
    \* resources is neither list nor object
    Payload(TRUE, TRUE, TRUE,
            Doc("obj", [GoodFields(<<"a">>, <<"1">>) EXCEPT !["resources"] = Str(<<"x">>)])),
    \* documents that are no object
    Payload(TRUE, TRUE, TRUE, Doc("num", NoFields)),
    Payload(TRUE, TRUE, TRUE, Doc("arr", NoFields)),
    Payload(TRUE, TRUE, TRUE, Doc("arr", GoodFields(<<"a">>, <<"1">>))) }

\* parse_json_payload: the document, or the ValueError it raises
parse_json_payload(payload) ==
  IF ~payload.utf8 THEN [raised |-> TRUE, data |-> NoDoc]
  ELSE IF ~payload.json THEN [raised |-> TRUE, data |-> NoDoc]
  ELSE [raised |-> FALSE, data |-> payload.doc]

VALIDATE8ADDONS == TRUE

\* import_addon_one's outcome: its return value, the storage as it leaves
\* it, the manifest it merged (NoDoc when it merged none) and what
\* merge_addon returned ("" when it was not reached)
Outcome(ok, storage, merged, action) ==
  [ok |-> ok, storage |-> storage, merged |-> merged, action |-> action]

\* import_addon_one with the merge done before the validation
import_addon_one_merge_first(src, storage, payload) ==
  IF ~payload.fetch
  THEN Outcome(FALSE, storage, NoDoc, "")
  ELSE
    LET parsed == parse_json_payload(payload)
        data == parsed.data
        v == validate_addon(data)
        m == merge_addon(storage, data, src)
    IN IF parsed.raised THEN Outcome(FALSE, storage, NoDoc, "")
       ELSE IF data.kind # "obj" \/ data.f["id"].t = "absent"
       THEN Outcome(FALSE, storage, NoDoc, "")
       ELSE IF VALIDATE8ADDONS /\ (v.raised \/ ~v.ok)
       THEN Outcome(FALSE, m.storage, NoDoc, "")
       ELSE Outcome(TRUE, m.storage, data, m.action)

\* import_addon_one on what read_bytes_from_source(src) yields
import_addon_one(src, storage, payload) ==
  IF ~payload.fetch
  THEN \* RuntimeError from read_bytes_from_source, caught
       Outcome(FALSE, storage, NoDoc, "")
  ELSE
    LET parsed == parse_json_payload(payload)
        data == parsed.data
        v == validate_addon(data)
    IN IF parsed.raised THEN Outcome(FALSE, storage, NoDoc, "")
       ELSE IF VALIDATE8ADDONS /\ (v.raised \/ ~v.ok)
       THEN Outcome(FALSE, storage, NoDoc, "")
       ELSE IF data.kind # "obj" \/ data.f["id"].t = "absent"
       THEN \* addon["id"] raises inside merge_addon, caught
            Outcome(FALSE, storage, NoDoc, "")
       ELSE LET m == merge_addon(storage, data, src)
            IN Outcome(TRUE, m.storage, data, m.action)

(* -------------------------------------------------------------- arguments *)
Sources == {"u1", "u2"}

\* all sequences over S of length lo..hi
SeqsOf(S, lo, hi) == UNION {[1..n -> S] : n \in lo..hi}

\* an argument's text: source names separated by single spaces
RECURSIVE Join(_)
Join(l) ==
  IF Len(l) = 0 THEN <<>>
  ELSE IF Len(l) = 1 THEN <<l[1]>>
  ELSE <<l[1], " ">> \o Join(Tail(l))

\* str.split(): the runs between whitespace
split(arg) == SelectSeq(arg, LAMBDA c : c \notin WS)

\* the arguments of runs that pass several arguments
ArgPool == {<<" ">>, <<"u1">>, <<" ", "u2", " ", "u1">>}

\* sys.argv[1:] of the runs modelled: one argument holding up to MaxUrls
\* sources, or up to MaxArgs arguments of ArgPool
Argvs ==
  {<<Join(l)>> : l \in SeqsOf(Sources, 1, MaxUrls)} \cup SeqsOf(ArgPool, 0, MaxArgs)

(* ------------------------------------------------------------ store files *)
OfficialB == Entry(TRUE, NoKey, TRUE, TRUE, ManifestB, "builtin")

FlatA == Entry(TRUE, Str(<<"a">>), FALSE, FALSE, NoDoc, "")

StoreFile(other, addons) == File(TRUE, Serialize(Storage(TRUE, other, addons)))

\* localStorage.json as a run may find it
StoreFiles ==
  { NoFile,
    File(TRUE, <<>>),
    File(TRUE, <<JunkChunk>>),
    File(TRUE, <<BadUtf8Chunk>>),
    \* a document cut short
    File(TRUE, <<HdrChunk("dict", "list", "auth"), ItemChunk(OfficialB)>>),
    File(TRUE, <<ScalarChunk("null", FALSE), NlChunk>>),
    File(TRUE, <<ScalarChunk("num", FALSE)>>),
    File(TRUE, <<ScalarChunk("bool", FALSE)>>),
    File(TRUE, <<ScalarChunk("str", FALSE)>>),
    File(TRUE, <<ScalarChunk("str", TRUE)>>),
    File(TRUE, <<ScalarChunk("arr", FALSE)>>),
    File(TRUE, <<ScalarChunk("arr", TRUE)>>),
    File(TRUE, <<HdrChunk("absent", "absent", ""), TailChunk>>),
    File(TRUE, <<HdrChunk("other", "absent", ""), TailChunk>>),
    File(TRUE, <<HdrChunk("dict", "absent", "auth"), TailChunk>>),
    File(TRUE, <<HdrChunk("dict", "other", "auth"), TailChunk>>),
    StoreFile("auth", <<>>),
    StoreFile("auth", <<FlatA, OfficialB>>),
    StoreFile("", <<NoEntry, FlatA, FlatA>>) }

\* a temporary file an interrupted earlier run left behind
Orphan == File(TRUE, <<HdrChunk("dict", "list", "auth")>>)

Disk(target, tmp) ==
  [q \in Paths |-> IF q = storage_path THEN target ELSE tmp]

Disks ==
  {Disk(f, NoFile) : f \in StoreFiles}
    \cup {Disk(StoreFile("auth", <<FlatA, OfficialB>>), Orphan)}

\* os.replace(src, dst) on the files d
os_replace(d, src, dst) ==
  IF src = dst THEN d ELSE [d EXCEPT ![dst] = d[src], ![src] = NoFile]

(* ------------------------------------------------------------------ state *)
VARIABLES
  argv,           \* sys.argv[1:]
  urls,           \* main's list of sources
  disk,           \* the files at storage_path and its temporary sibling
  storage,        \* main's in-memory document (None before the load)
  loaded,         \* the document as load_storage returned it
  idx,            \* position of the loop over urls
  success_count,  \* main's counter
  log,            \* the sources attempted so far, with their outcome
  save_calls,     \* calls of save_storage
  pc,             \* where the run is
  ret,            \* main's return value, NoValue while it runs
  exit_status     \* the interpreter's exit status, NoValue while it runs

vars ==
  <<argv, urls, disk, storage, loaded, idx, success_count, log, save_calls,
    pc, ret, exit_status>>

NoValue == -1

Attempt(src, ok, merged, action) ==
  [src |-> src, ok |-> ok, merged |-> merged, action |-> action]

Init ==
  /\ argv \in Argvs
  /\ disk \in Disks
  /\ urls = <<>>
  /\ storage = None
  /\ loaded = None
  /\ idx = 1
  /\ success_count = 0
  /\ log = <<>>
  /\ save_calls = 0
  /\ pc = "main"
  /\ ret = NoValue
  /\ exit_status = NoValue

\* main, lines 151-158: the sources of the first non-blank argument
ParseArgs ==
  /\ pc = "main"
  /\ LET nonblank == SelectSeq(argv, LAMBDA arg : strip(arg) # <<>>)
     IN IF nonblank = <<>>
        THEN \* urls[0] raises IndexError
             /\ pc' = "raised"
             /\ UNCHANGED <<urls, ret>>
        ELSE /\ urls' = split(nonblank[1])
             /\ IF urls' = <<>>
                THEN pc' = "returned" /\ ret' = 2
                ELSE pc' = "load" /\ ret' = ret
  /\ UNCHANGED <<argv, disk, storage, loaded, idx, success_count, log,
                 save_calls, exit_status>>

\* main starting from an empty store when load_storage returns None
LoadStorage_fresh_store ==
  /\ pc = "load"
  /\ LET r == load_storage(disk[storage_path])
         data == IF r.data.some THEN r.data ELSE Storage(TRUE, "", <<>>)
     IN IF r.raised # ""
        THEN pc' = "raised" /\ UNCHANGED <<storage, loaded, ret>>
        ELSE pc' = "loop" /\ storage' = data /\ loaded' = data /\ ret' = ret
  /\ idx' = 1
  /\ success_count' = 0
  /\ UNCHANGED <<argv, urls, disk, log, save_calls, exit_status>>

\* main, lines 160-167: load the store or give up
LoadStorage ==
  /\ pc = "load"
  /\ LET r == load_storage(disk[storage_path])
     IN IF r.raised # ""
        THEN pc' = "raised" /\ UNCHANGED <<storage, loaded, ret>>
        ELSE IF ~r.data.some
        THEN pc' = "returned" /\ ret' = 1 /\ UNCHANGED <<storage, loaded>>
        ELSE pc' = "loop" /\ storage' = r.data /\ loaded' = r.data /\ ret' = ret
  /\ idx' = 1
  /\ success_count' = 0
  /\ UNCHANGED <<argv, urls, disk, log, save_calls, exit_status>>

\* the loop with a failed source ending the batch
ImportNext_abort ==
  /\ pc = "loop"
  /\ idx <= Len(urls)
  /\ \E payload \in Payloads :
       LET u == urls[idx]
           r == import_addon_one(u, storage, payload)
       IN /\ storage' = r.storage
          /\ success_count' = IF r.ok THEN success_count + 1 ELSE success_count
          /\ log' = Append(log, Attempt(u, r.ok, r.merged, r.action))
          /\ idx' = IF r.ok THEN idx + 1 ELSE Len(urls) + 1
  /\ UNCHANGED <<argv, urls, disk, loaded, save_calls, pc, ret, exit_status>>

\* main, lines 168-171: one turn of the loop
ImportNext ==
  /\ pc = "loop"
  /\ idx <= Len(urls)
  /\ \E payload \in Payloads :
       LET u == urls[idx]
           r == import_addon_one(u, storage, payload)
       IN /\ storage' = r.storage
          /\ success_count' = IF r.ok THEN success_count + 1 ELSE success_count
          /\ log' = Append(log, Attempt(u, r.ok, r.merged, r.action))
  /\ idx' = idx + 1
  /\ UNCHANGED <<argv, urls, disk, loaded, save_calls, pc, ret, exit_status>>

\* main saving whatever the count
AfterLoop_always_saves ==
  /\ pc = "loop"
  /\ idx > Len(urls)
  /\ save_calls' = save_calls + 1
  /\ disk' = [disk EXCEPT ![tmp_path(storage_path)] = File(TRUE, <<>>)]
  /\ pc' = "save_write"
  /\ UNCHANGED <<argv, urls, storage, loaded, idx, success_count, log, ret, exit_status>>

\* main, lines 173-179, and save_storage up to the open of the temporary
\* file, which creates or truncates it
AfterLoop ==
  /\ pc = "loop"
  /\ idx > Len(urls)
  /\ IF success_count # 0
     THEN /\ save_calls' = save_calls + 1
          /\ disk' = [disk EXCEPT ![tmp_path(storage_path)] = File(TRUE, <<>>)]
          /\ pc' = "save_write"
          /\ ret' = ret
     ELSE /\ pc' = "returned"
          /\ ret' = 1
          /\ UNCHANGED <<disk, save_calls>>
  /\ UNCHANGED <<argv, urls, storage, loaded, idx, success_count, log, exit_status>>

\* save_storage, lines 98-99: the next chunk reaches the temporary file
SaveWrite ==
  /\ pc = "save_write"
  /\ LET tmp == tmp_path(storage_path)
         out == Serialize(storage)
         n == Len(disk[tmp].text)
     IN /\ n < Len(out)
        /\ disk' = [disk EXCEPT ![tmp].text = Append(@, out[n + 1])]
        /\ pc' = IF n + 1 = Len(out) THEN "save_replace" ELSE "save_write"
  /\ UNCHANGED <<argv, urls, storage, loaded, idx, success_count, log,
                 save_calls, ret, exit_status>>

\* save_storage, line 100, and main's return 0
SaveReplace ==
  /\ pc = "save_replace"
  /\ disk' = os_replace(disk, tmp_path(storage_path), storage_path)
  /\ pc' = "returned"
  /\ ret' = 0
  /\ UNCHANGED <<argv, urls, storage, loaded, idx, success_count, log,
                 save_calls, exit_status>>

\* save_storage fails or the process is interrupted before the rename
SaveCrash ==
  /\ pc \in {"save_write", "save_replace"}
  /\ pc' = "raised"
  /\ UNCHANGED <<argv, urls, disk, storage, loaded, idx, success_count, log,
                 save_calls, ret, exit_status>>

\* lines 181-182: main() is called and its value dropped; the interpreter
\* exits 0 after a return and 1 after an uncaught exception
Exit ==
  /\ pc \in {"returned", "raised"}
  /\ exit_status' = IF pc = "raised" THEN 1 ELSE 0
  /\ pc' = "exited"
  /\ UNCHANGED <<argv, urls, disk, storage, loaded, idx, success_count, log,
                 save_calls, ret>>

Next ==
  \/ ParseArgs
  \/ LoadStorage
  \/ ImportNext
  \/ AfterLoop
  \/ SaveWrite
  \/ SaveReplace
  \/ SaveCrash
  \/ Exit

Spec == Init /\ [][Next]_vars

(* ----------------------------------------------------------------- claims *)
\* the id of the manifest an entry wraps, NoKey if it wraps none
ManifestId(e) ==
  IF e.isDict /\ e.manifest.kind = "obj" THEN e.manifest.f["id"] ELSE NoKey

NoDupManifestIds(addons) ==
  \A i, j \in 1..Len(addons) :
    (i < j /\ ManifestId(addons[i]).t = "str") => ManifestId(addons[i]) # ManifestId(addons[j])

\* the successful attempts of a log
Successes(l) == SelectSeq(l, LAMBDA a : a.ok)

\* C1: starting from a store without two entries of one manifest id, the
\* addons list never holds two entries of one manifest id, and a manifest
\* whose id an earlier successful import already merged is classified
\* "updated".
C1_OneEntryPerManifestId ==
  (loaded.some /\ NoDupManifestIds(loaded.addons)) =>
    /\ NoDupManifestIds(storage.addons)
    /\ \A i, j \in 1..Len(log) :
         (i < j /\ log[i].ok /\ log[j].ok
            /\ log[i].merged.f["id"] = log[j].merged.f["id"])
           => log[j].action = "updated"

\* the store was written by this run
Saved ==
  save_calls > 0 /\ disk[storage_path] = File(TRUE, Serialize(storage))

\* C2: with a non-empty source list, the process exit status is 0 exactly
\* when a source was imported and the store was saved, and 1 otherwise.
C2_ExitStatus ==
  (pc = "exited" /\ urls # <<>>) =>
    /\ exit_status = 0 <=> (Successes(log) # <<>> /\ Saved)
    /\ exit_status \in {0, 1}

NoUsableInput == \A i \in 1..Len(argv) : strip(argv[i]) = <<>>

\* C3: without usable input main returns 2, raises nothing and leaves the
\* store alone.
C3_NoInput ==
  NoUsableInput =>
    /\ pc # "raised"
    /\ pc \in {"returned", "exited"} => ret = 2
    /\ storage = None /\ log = <<>> /\ save_calls = 0

\* C4: save_storage is called at most once, only after every source was
\* attempted, and, once the run has ended, exactly when a source succeeded.
C4_SaveOnceAtEnd ==
  /\ save_calls <= 1
  /\ save_calls = 1 =>
       /\ Len(log) = Len(urls)
       /\ idx > Len(urls)
       /\ pc # "loop"
  /\ pc \in {"returned", "raised", "exited"} =>
       (save_calls = 1 <=> Successes(log) # <<>>)

C4_Witness ==
  /\ pc = "exited"
  /\ save_calls = 1
  /\ Len(log) >= 2
  /\ ~log[Len(log)].ok

\* load_storage returns None for the file: it is missing, no JSON, or a
\* document without the profile.addons list
Absent(file) ==
  LET r == load_storage(file) IN r.raised = "" /\ ~r.data.some

\* C5: when load_storage yields None for a run that has sources, the run
\* returns the fatal status 1 from the load step: no source is attempted,
\* nothing is merged and no file is written.
C5_AbortOnAbsent ==
  [][(Absent(disk[storage_path]) /\ urls # <<>>) =>
       /\ disk' = disk
       /\ log' = <<>>
       /\ storage' = None
       /\ save_calls' = 0
       /\ pc' \in {"returned", "exited"}
       /\ ret' = 1]_vars

C5_Witness ==
  /\ pc = "exited"
  /\ ret = 1
  /\ Len(urls) >= 2
  /\ disk[storage_path].exists
  /\ Absent(disk[storage_path])

\* C6: once the store has loaded, the sources are attempted once each in the
\* order given, a failed source only counts as failed, and nothing but the
\* save can end the run with an error.
C6_FailureIsolation ==
  loaded.some =>
    /\ Len(log) = idx - 1
    /\ Len(log) <= Len(urls)
    /\ \A i \in 1..Len(log) : log[i].src = urls[i]
    /\ success_count = Len(Successes(log))
    /\ pc # "loop" => Len(log) = Len(urls)
    /\ pc = "raised" => save_calls = 1

C6_Witness ==
  /\ pc = "exited"
  /\ ret = 0
  /\ Len(log) = 3
  /\ ~log[1].ok /\ log[2].ok /\ ~log[3].ok

\* C7: the temporary path differs from the target, and the target's content
\* changes only in the rename step, to the complete serialized store.
C7_AtomicPersist ==
  [][/\ tmp_path(storage_path) # storage_path
     /\ disk'[storage_path] # disk[storage_path] =>
          /\ pc = "save_replace"
          /\ disk'[storage_path] = File(TRUE, Serialize(storage))]_vars

\* a run interrupted in the middle of the write
C7_Witness ==
  /\ pc = "raised"
  /\ save_calls = 1
  /\ disk[tmp_path(storage_path)].exists
  /\ Len(disk[tmp_path(storage_path)].text) >= 2
  /\ json_load(disk[tmp_path(storage_path)].text).err = "JSONDecodeError"
  /\ disk[storage_path] = File(TRUE, Serialize(loaded))

\* the document has a profile object holding an addons list
WellShaped(file) ==
  /\ file.exists
  /\ LET j == json_load(file.text)
     IN j.err = "" /\ j.kind = "obj" /\ j.hdr.profile = "dict" /\ j.hdr.addons = "list"

\* C8: load_storage raises for no store file, and returns the document
\* exactly when profile is an object holding an addons list.
C8_LoadFailsSoftly ==
  pc = "load" =>
    LET r == load_storage(disk[storage_path])
    IN r.raised = "" /\ (r.data.some <=> WellShaped(disk[storage_path]))

\* the entry carries the manifest's id, at the top level or in its manifest
BearsId(e, addon) ==
  e.isDict /\ (Get(e.id) = addon.f["id"] \/ ManifestId(e) = addon.f["id"])

\* C9: an "updated" merge replaces one entry, in place, by the fresh wrapper
\* and an "inserted" merge appends it; all other entries keep their index.
C9_OrderPreserved ==
  [][(Len(log') = Len(log) + 1 /\ log'[Len(log')].ok) =>
       LET a == log'[Len(log')]
           data == AddonEntry(a.merged, a.src)
           old == storage.addons
           new == storage'.addons
       IN /\ ~data.flags.official /\ ~data.flags.protected
          /\ a.action \in {"updated", "inserted"}
          /\ a.action = "updated" =>
               /\ Len(new) = Len(old)
               /\ \E k \in 1..Len(old) :
                    /\ BearsId(old[k], a.merged)
                    /\ new[k] = data
                    /\ \A j \in 1..Len(old) : j # k => new[j] = old[j]
          /\ a.action = "inserted" => new = Append(old, data)]_vars

C9_Witness ==
  /\ Len(log) >= 1
  /\ log[Len(log)].action = "updated"
  /\ Len(storage.addons) = 3
  /\ storage.addons[2] = AddonEntry(log[Len(log)].merged, log[Len(log)].src)
  /\ storage.addons[3] = FlatA

\* the merges of the successful attempts of l, applied in order to s
RECURSIVE Replay(_, _)
Replay(s, l) ==
  IF l = <<>> THEN s
  ELSE Replay(IF Head(l).ok THEN merge_addon(s, Head(l).merged, Head(l).src).storage
              ELSE s,
              Tail(l))

\* C10: the in-memory store is the loaded store with the merges of exactly
\* the successful sources applied in order, the count is their number, and
\* a run that returns 0 has persisted that store.
C10_PartialSuccess ==
  loaded.some =>
    /\ storage = Replay(loaded, log)
    /\ success_count = Len(Successes(log))
    /\ ret = 0 =>
         LET j == json_load(disk[storage_path].text)
         IN /\ disk[storage_path].exists
            /\ j.err = ""
            /\ j.hdr.other = loaded.other
            /\ j.items = Replay(loaded, log).addons

C10_Witness ==
  /\ pc = "exited"
  /\ ret = 0
  /\ Len(log) = 3
  /\ log[1].ok /\ ~log[2].ok /\ log[3].ok
  /\ Len(storage.addons) = Len(loaded.addons) + 2

====
